---- MODULE Spec2Model ----
(***************************************************************************)
(* A model of glamor.c: initialisation and teardown of the glamor          *)
(* acceleration backend (glamor_init, glamor_close_screen), its block      *)
(* handlers, and the pixmap creation / destruction entry points.           *)
(***************************************************************************)
EXTENDS Integers, Sequences, FiniteSets, TLC

(***************************************************************************)
(* Bounds of the model.                                                    *)
(***************************************************************************)
\* context records (glamor_screen_private) allocated during one run
MaxCtx == 2
\* value at which the model stops advancing glamor_priv->tick
MaxTick == 2
\* pixmaps allocated by fbCreatePixmap during one run
MaxPix == 3
\* render targets (glamor_pixmap_fbo) allocated during one run
MaxFbo == 2
\* references the host holds on one pixmap
MaxRef == 2

(***************************************************************************)
(* Small helpers.                                                          *)
(***************************************************************************)
Range(seq) == {seq[i] : i \in 1..Len(seq)}

Reverse(seq) == [i \in 1..Len(seq) |-> seq[Len(seq) + 1 - i]]

\* positions of the elements of sub inside seq, when sub occurs in seq in order
RECURSIVE IsSubSeq(_, _)
IsSubSeq(sub, seq) ==
    IF sub = <<>> THEN TRUE
    ELSE IF seq = <<>> THEN FALSE
    ELSE IF Head(sub) = Head(seq) THEN IsSubSeq(Tail(sub), Tail(seq))
    ELSE IsSubSeq(sub, Tail(seq))

(***************************************************************************)
(* Configuration flags of glamor_init.  A flag word is the set of its      *)
(* bits; UNKNOWN_BIT stands for any bit outside GLAMOR_VALID_FLAGS.        *)
(***************************************************************************)
GLAMOR_INVERTED_Y_AXIS == "GLAMOR_INVERTED_Y_AXIS"
GLAMOR_USE_SCREEN == "GLAMOR_USE_SCREEN"
GLAMOR_USE_PICTURE_SCREEN == "GLAMOR_USE_PICTURE_SCREEN"
UNKNOWN_BIT == "UNKNOWN_BIT"

GLAMOR_VALID_FLAGS ==
    {GLAMOR_INVERTED_Y_AXIS, GLAMOR_USE_SCREEN, GLAMOR_USE_PICTURE_SCREEN}

ValidFlagWords == SUBSET GLAMOR_VALID_FLAGS

\* the flag words the driver passes: every valid one, and two with a bit
\* outside GLAMOR_VALID_FLAGS
FlagWords ==
    ValidFlagWords \cup {{UNKNOWN_BIT}, {GLAMOR_USE_SCREEN, UNKNOWN_BIT}}

(***************************************************************************)
(* The host's operation tables.  A handler is <<owner, operation>>.        *)
(***************************************************************************)
\* entries of ScreenRec hooked by glamor_init, in the order it hooks them
ScreenInstallOrder ==
    << "CloseScreen", "CreateGC", "CreatePixmap", "DestroyPixmap", "GetSpans",
       "GetImage", "ChangeWindowAttributes", "CopyWindow", "BitmapToRegion" >>

\* entries of PictureScreenRec hooked under GLAMOR_USE_PICTURE_SCREEN
PictureInstallOrder ==
    << "Composite", "Trapezoids", "Glyphs", "Triangles", "AddTraps",
       "UnrealizeGlyph" >>

\* entries of PictureScreenRec hooked in every RENDER build
PictureAlwaysInstallOrder == << "CreatePicture", "DestroyPicture" >>

ScreenSlots == Range(ScreenInstallOrder)

PictureSlots == Range(PictureInstallOrder) \cup Range(PictureAlwaysInstallOrder)

AllSlots == ScreenSlots \cup PictureSlots

NULLH == << "NULL", "NULL" >>

\* the handler of this backend for operation s (glamor_create_gc, ...)
GlamorProc(s) == << "glamor", s >>

\* the handler the host had in place before this backend
PriorProc(s) == << "prior", s >>

\* the software implementation of operation s (fbCreatePixmap, ...)
FbProc(s) == << "fb", s >>

\* the handler of another backend, installed before this one
OtherProc(s) == << "other", s >>

(***************************************************************************)
(* The GL context glamor_init is handed.                                   *)
(***************************************************************************)
GLAMOR_GL_VERSION_ENCODE(major, minor) == major * 256 + minor

BGRA8888 == "GL_EXT_texture_format_BGRA8888"
PACK_INVERT == "GL_MESA_pack_invert"
FRAMEBUFFER_BLIT == "GL_EXT_framebuffer_blit"

\* the environments the server is started in: the GL context handed to
\* glamor_init and the GLAMOR_DEBUG environment variable (unset, or a number)
Environments ==
    { [version |-> GLAMOR_GL_VERSION_ENCODE(1, 2),
       extensions |-> {BGRA8888, PACK_INVERT, FRAMEBUFFER_BLIT},
       max_renderbuffer_size |-> 64, debug |-> "unset"],
      [version |-> GLAMOR_GL_VERSION_ENCODE(1, 3),
       extensions |-> {PACK_INVERT},
       max_renderbuffer_size |-> 64, debug |-> "1"],
      [version |-> GLAMOR_GL_VERSION_ENCODE(2, 0),
       extensions |-> {FRAMEBUFFER_BLIT},
       max_renderbuffer_size |-> 128, debug |-> "unset"],
      [version |-> GLAMOR_GL_VERSION_ENCODE(2, 0),
       extensions |-> {BGRA8888, PACK_INVERT, FRAMEBUFFER_BLIT},
       max_renderbuffer_size |-> 64, debug |-> "1"] }

VARIABLES
    RENDER,              \* build option: #ifdef RENDER
    GLES2,               \* build option: #ifdef GLAMOR_GLES2
    gl,                  \* the GL context (version, extensions, limits) and GLAMOR_DEBUG
    screen,              \* ScreenRec's operation table
    ps_set,              \* GetPictureScreenIfSet(screen) is not NULL
    ps,                  \* PictureScreenRec's operation table (when ps_set)
    screenPriv,          \* screen->devPrivates[glamor_screen_private_key]: 0 or a context id
    ctx,                 \* heap of context records (glamor_screen_private)
    keys,                \* glamor_screen_private_key / glamor_pixmap_private_key registered
    handlers,            \* block/wakeup handler registrations: the data pointer of each
    glamor_debug_level,  \* the global of that name
    crashed,             \* the server died on an invalid memory access
    pixmaps,             \* heap of pixmaps
    privs,               \* heap of binding records (glamor_pixmap_private)
    fbos,                \* heap of render targets
    last,                \* the last call made: its arguments, path and result
    initSnap             \* the operation tables just before the last successful
                         \* glamor_init, and the entries it hooked, in order

vars == << RENDER, GLES2, gl, ps_set, screen, ps, screenPriv, ctx, keys,
           handlers, glamor_debug_level, crashed, pixmaps, privs, fbos, last,
           initSnap >>

buildVars == << RENDER, GLES2, gl, ps_set >>

pixVars == << pixmaps, privs, fbos >>

(***************************************************************************)
(* Context records.                                                        *)
(***************************************************************************)
\* calloc(1, sizeof(*glamor_priv)): every field zero
ZeroCtx ==
    [ mem |-> "live", yInverted |-> 0, flags |-> {},
      saved_procs |-> [s \in AllSlots |-> NULLH],
      tick |-> 0, max_fbo_size |-> 0,
      has_pack_invert |-> FALSE, has_fbo_blit |-> FALSE,
      dispatch |-> 0, gl_flavor |-> "zero" ]

\* a record after free(glamor_priv): its contents are gone
FreedCtx == [ZeroCtx EXCEPT !.mem = "freed"]

\* the part of the state glamor_init and glamor_close_screen work on
HostState ==
    [ screen |-> screen, ps |-> ps, screenPriv |-> screenPriv, ctx |-> ctx,
      keys |-> keys, handlers |-> handlers,
      glamor_debug_level |-> glamor_debug_level ]

\* the content of the state without the identities of heap cells
Observable(st) ==
    [ screen |-> st.screen, ps |-> st.ps,
      priv |-> IF st.screenPriv = 0 THEN "NULL" ELSE st.ctx[st.screenPriv],
      handlers |-> [i \in 1..Len(st.handlers) |-> st.ctx[st.handlers[i]].mem],
      keys |-> st.keys,
      glamor_debug_level |-> st.glamor_debug_level ]

(***************************************************************************)
(* glamor_init.                                                            *)
(***************************************************************************)
\* what one call meets: whether calloc, the two dixRegisterPrivateKey calls and
\* RegisterBlockAndWakeupHandlers succeed
OkEnv ==
    [ calloc_ok |-> TRUE, key_screen_ok |-> TRUE, key_pixmap_ok |-> TRUE,
      register_ok |-> TRUE ]

\* the first call to fail decides the path, so one failure per call is enough
InitEnvs ==
    { OkEnv,
      [OkEnv EXCEPT !.calloc_ok = FALSE],
      [OkEnv EXCEPT !.key_screen_ok = FALSE],
      [OkEnv EXCEPT !.key_pixmap_ok = FALSE],
      [OkEnv EXCEPT !.register_ok = FALSE] }

\* the lowest GL version glamor_init accepts in this build
MinGLVersion ==
    IF GLES2 THEN GLAMOR_GL_VERSION_ENCODE(2, 0)
    ELSE GLAMOR_GL_VERSION_ENCODE(1, 3)

glamor_gl_has_extension(name) == name \in gl.extensions

\* glamor_set_debug_level: the number in GLAMOR_DEBUG, else 0
glamor_set_debug_level == IF gl.debug = "1" THEN 1 ELSE 0

\* the entries glamor_init saves and overwrites, in the order it does so
InstallOrder(flags) ==
    (IF GLAMOR_USE_SCREEN \in flags THEN ScreenInstallOrder ELSE <<>>)
    \o (IF RENDER
        THEN (IF GLAMOR_USE_PICTURE_SCREEN \in flags
              THEN PictureInstallOrder ELSE <<>>)
             \o PictureAlwaysInstallOrder
        ELSE <<>>)

\* saved_procs.x = table->X; table->X = glamor_x;   on t = [screen, ps, saved]
SaveAndHook(t, s) ==
    IF s \in ScreenSlots
    THEN [t EXCEPT !.saved[s] = t.screen[s], !.screen[s] = GlamorProc(s)]
    ELSE [t EXCEPT !.saved[s] = t.ps[s], !.ps[s] = GlamorProc(s)]

RECURSIVE Install(_, _)
Install(t, order) ==
    IF order = <<>> THEN t
    ELSE Install(SaveAndHook(t, Head(order)), Tail(order))

\* InitFail without the dixSetPrivate(..., NULL)
InitFail_KeepsSlot(st, p, path) ==
    [ st |-> [st EXCEPT !.ctx[p] = FreedCtx],
      ret |-> FALSE, crashed |-> FALSE, path |-> path, installed |-> <<>> ]

\* the fail label: free(glamor_priv); dixSetPrivate(..., NULL); return FALSE
InitFail(st, p, path) ==
    [ st |-> [st EXCEPT !.ctx[p] = FreedCtx, !.screenPriv = 0],
      ret |-> FALSE, crashed |-> FALSE, path |-> path, installed |-> <<>> ]

\* a return FALSE that precedes every assignment
InitRefuse(st, path) ==
    [ st |-> st, ret |-> FALSE, crashed |-> FALSE, path |-> path,
      installed |-> <<>> ]

\* the part of glamor_init from the handler registration on
InitHook(st, p, flags, env) ==
    IF GLAMOR_USE_SCREEN \in flags /\ ~env.register_ok
    THEN InitFail(st, p, "register_handlers")
    ELSE
    LET st1 == IF GLAMOR_USE_SCREEN \in flags
               THEN [st EXCEPT !.handlers = Append(@, p)] ELSE st
        hooked == IF RENDER /\ ~ps_set
                  THEN IF GLAMOR_USE_SCREEN \in flags
                       THEN ScreenInstallOrder ELSE <<>>
                  ELSE InstallOrder(flags)
        t == Install([screen |-> st1.screen, ps |-> st1.ps,
                      saved |-> st1.ctx[p].saved_procs], hooked)
        st2 == [st1 EXCEPT !.screen = t.screen, !.ps = t.ps,
                           !.ctx[p].saved_procs = t.saved]
    IN  IF RENDER /\ ~ps_set
        THEN \* ps->Composite or ps->CreatePicture read through a null ps
             [ st |-> st2, ret |-> FALSE, crashed |-> TRUE,
               path |-> "null_ps", installed |-> hooked ]
        ELSE [ st |-> [st2 EXCEPT
                         !.ctx[p].gl_flavor =
                             IF GLES2 THEN "GLAMOR_GL_ES2" ELSE "GLAMOR_GL_DESKTOP",
                         !.ctx[p].flags = flags],
               ret |-> TRUE, crashed |-> FALSE, path |-> "ok",
               installed |-> hooked ]

\* the part of glamor_init that queries the GL context
InitNegotiate(st, p, flags, env) ==
    IF gl.version < MinGLVersion THEN InitFail(st, p, "gl_version")
    ELSE
    LET st1 == [st EXCEPT !.ctx[p].dispatch = gl.version]
    IN  IF GLES2 /\ ~glamor_gl_has_extension(BGRA8888)
        THEN InitFail(st1, p, "extension")
        ELSE InitHook(
                 [st1 EXCEPT
                    !.ctx[p].has_pack_invert = glamor_gl_has_extension(PACK_INVERT),
                    !.ctx[p].has_fbo_blit = glamor_gl_has_extension(FRAMEBUFFER_BLIT),
                    !.ctx[p].max_fbo_size = gl.max_renderbuffer_size,
                    !.glamor_debug_level = glamor_set_debug_level],
                 p, flags, env)

\* glamor_init(screen, flags) run on state st: the state it leaves, its return
\* value, the path taken and the entries it hooked, in order
glamor_init(st, flags, env) ==
    IF flags \ GLAMOR_VALID_FLAGS # {} THEN InitRefuse(st, "invalid_flags")
    ELSE IF ~env.calloc_ok THEN InitRefuse(st, "calloc")
    ELSE
    LET p == Len(st.ctx) + 1
        st1 == [st EXCEPT
                  !.ctx = Append(@, [ZeroCtx EXCEPT
                      !.yInverted =
                          IF GLAMOR_INVERTED_Y_AXIS \in flags THEN 1 ELSE 0])]
    IN  IF ~env.key_screen_ok THEN InitFail(st1, p, "screen_key")
        ELSE
        LET st2 == [st1 EXCEPT !.keys.screen = TRUE, !.screenPriv = p]
        IN  IF ~env.key_pixmap_ok THEN InitFail(st2, p, "pixmap_key")
            ELSE InitNegotiate([st2 EXCEPT !.keys.pixmap = TRUE], p, flags, env)

(***************************************************************************)
(* Render targets (glamor_pixmap_fbo) and the pool of idle ones.           *)
(***************************************************************************)
\* ticks an idle render target is kept in the pool before expire destroys it
RetentionWindow == 1

\* glamor_fbo_expire: destroy the idle targets older than the retention window
glamor_fbo_expire(f, tick) ==
    [i \in 1..Len(f) |->
        IF f[i].st = "idle" /\ tick - f[i].expire > RetentionWindow
        THEN [f[i] EXCEPT !.st = "destroyed"] ELSE f[i]]

\* glamor_fini_pixmap_fbo: drain the pool at teardown
glamor_fini_pixmap_fbo(f) ==
    [i \in 1..Len(f) |->
        IF f[i].st = "idle" THEN [f[i] EXCEPT !.st = "destroyed"] ELSE f[i]]

\* glamor_destroy_fbo: a pool-managed target goes to the idle pool, stamped
\* with the current tick; any other is destroyed outright
glamor_destroy_fbo(f, id, tick) ==
    IF f[id].pooled
    THEN [f EXCEPT ![id].st = "idle", ![id].expire = tick]
    ELSE [f EXCEPT ![id].st = "destroyed"]

(***************************************************************************)
(* Pixmaps and their binding records (glamor_pixmap_private).              *)
(***************************************************************************)
\* the largest width or height glamor_create_pixmap accepts
MaxPixmapDim == 32767

CREATE_PIXMAP_USAGE_DEFAULT == "0"
GLAMOR_CREATE_PIXMAP_CPU == "GLAMOR_CREATE_PIXMAP_CPU"

GLAMOR_TEXTURE_ONLY == "GLAMOR_TEXTURE_ONLY"
GLAMOR_TEXTURE_DRM == "GLAMOR_TEXTURE_DRM"
GLAMOR_MEMORY == "GLAMOR_MEMORY"

\* the types the driver passes to glamor_set_pixmap_type
PixmapTypes == {GLAMOR_TEXTURE_DRM, GLAMOR_MEMORY}

\* the depths a render target can have
SupportedDepths == {8, 15, 16, 24, 30, 32}

\* glamor_check_fbo_size: both dimensions within the queried maximum
glamor_check_fbo_size(max_fbo_size, w, h) == w <= max_fbo_size /\ h <= max_fbo_size

glamor_check_fbo_depth(depth) == depth \in SupportedDepths

\* pixmap->drawable.bitsPerPixel for a depth
BitsPerPixel(depth) ==
    IF depth <= 1 THEN 1
    ELSE IF depth <= 4 THEN 4
    ELSE IF depth <= 8 THEN 8
    ELSE IF depth <= 16 THEN 16
    ELSE 32

\* (((w * bitsPerPixel + 7) / 8) + 3) & ~3
Pitch(w, depth) == ((((w * BitsPerPixel(depth) + 7) \div 8) + 3) \div 4) * 4

\* a binding record after free(pixmap_priv)
FreedPriv ==
    [ mem |-> "freed", type |-> "none", fbo |-> 0, container |-> 0,
      glamor_priv |-> 0 ]

\* a pixmap after its memory went back to the allocator
FreedPixmap ==
    [ mem |-> "freed", w |-> 0, h |-> 0, depth |-> 0, usage |-> "none",
      refcnt |-> 0, devKind |-> 0, priv |-> 0, returned |-> FALSE ]

\* fbCreatePixmap(screen, w, h, depth, usage): a new pixmap, one reference,
\* its private slot NULL (0); its id is its place in the heap
fbCreatePixmap(px, w, h, depth, usage) ==
    Append(px, [ mem |-> "live", w |-> w, h |-> h, depth |-> depth,
                 usage |-> usage, refcnt |-> 1, devKind |-> Pitch(w, depth),
                 priv |-> 0, returned |-> FALSE ])

\* fbDestroyPixmap(pixmap): drop one reference, free the pixmap with the last
fbDestroyPixmap(px, id) ==
    IF px[id].refcnt > 1 THEN [px EXCEPT ![id].refcnt = @ - 1]
    ELSE [px EXCEPT ![id] = FreedPixmap]

\* the idle targets of the pool that fit a request
IdleMatches(f, w, h, depth) ==
    {i \in 1..Len(f) : f[i].st = "idle" /\ f[i].w = w /\ f[i].h = h
                                        /\ f[i].depth = depth}

\* glamor_create_fbo: reuse an idle target of that size and depth, else
\* allocate one on the GPU; 0 (NULL) when the request is not supported or
\* the GPU allocation fails
glamor_create_fbo(f, max_fbo_size, w, h, depth, gpu_ok) ==
    IF ~glamor_check_fbo_depth(depth) \/ ~glamor_check_fbo_size(max_fbo_size, w, h)
    THEN [fbos |-> f, id |-> 0]
    ELSE IF IdleMatches(f, w, h, depth) # {}
    THEN LET i == CHOOSE j \in IdleMatches(f, w, h, depth) :
                     \A k \in IdleMatches(f, w, h, depth) : j <= k
         IN  [fbos |-> [f EXCEPT ![i].st = "held"], id |-> i]
    ELSE IF ~gpu_ok THEN [fbos |-> f, id |-> 0]
    ELSE [ fbos |-> Append(f, [ st |-> "held", w |-> w, h |-> h,
                                depth |-> depth, pooled |-> TRUE,
                                expire |-> 0 ]),
           id |-> Len(f) + 1 ]

\* glamor_pixmap_attach_fbo(pixmap, fbo), on b = [pixmaps, privs, fbos]
glamor_pixmap_attach_fbo(b, id, fbo) ==
    [b EXCEPT !.privs[b.pixmaps[id].priv].fbo = fbo,
              !.fbos[fbo].st = "attached"]

\* glamor_pixmap_detach_fbo(pixmap_priv): the record r owns no target any
\* more; the target it owned is handed to the caller
glamor_pixmap_detach_fbo(b, r) ==
    LET fbo == b.privs[r].fbo
    IN  [ b |-> IF fbo = 0 THEN b
                ELSE [b EXCEPT !.privs[r].fbo = 0, !.fbos[fbo].st = "held"],
          fbo |-> fbo ]

\* what a call of glamor_create_pixmap returns, on b = [pixmaps, privs, fbos]:
\* ret is the pixmap returned (0 for NullPixmap), placeholder the zero-sized
\* pixmap and record the binding record the call allocated (0 for none)
CreateResult(b, ret, path, placeholder, record) ==
    [ b |-> b, ret |-> ret, path |-> path, placeholder |-> placeholder,
      record |-> record ]

\* CreateFallback asking the software path for a zero-sized pixmap
CreateFallback_ZeroSized(b, w, h, depth, usage, path, placeholder, record) ==
    CreateResult([b EXCEPT !.pixmaps = fbCreatePixmap(@, 0, 0, depth, usage)],
                 Len(b.pixmaps) + 1, path, placeholder, record)

\* return fbCreatePixmap(screen, w, h, depth, usage)
CreateFallback(b, w, h, depth, usage, path, placeholder, record) ==
    CreateResult([b EXCEPT !.pixmaps = fbCreatePixmap(@, w, h, depth, usage)],
                 Len(b.pixmaps) + 1, path, placeholder, record)

\* fbo = glamor_create_fbo(...) came back non-NULL (a.id): attach it and give
\* the placeholder its size;  b is the state before the acquisition
CreateTextured(b, a, id, r, w, h, depth) ==
    LET b1 == glamor_pixmap_attach_fbo([b EXCEPT !.fbos = a.fbos], id, a.id)
    IN  \* screen->ModifyPixmapHeader(pixmap, w, h, 0, 0, pitch, NULL)
        CreateResult([b1 EXCEPT !.pixmaps[id].w = w, !.pixmaps[id].h = h,
                                !.pixmaps[id].devKind = Pitch(w, depth)],
                     id, "textured", id, r)

\* CreateAcquire returning NullPixmap when no render target can be had
CreateAcquire_NullOnFailure(b, id, r, c, w, h, depth, usage, gpu_ok) ==
    LET a == glamor_create_fbo(b.fbos, c.max_fbo_size, w, h, depth, gpu_ok)
    IN  IF a.id = 0
        THEN CreateResult([b EXCEPT !.pixmaps = fbDestroyPixmap(@, id),
                                    !.privs[r] = FreedPriv],
                          0, "fbo_failed", id, r)
        ELSE CreateTextured(b, a, id, r, w, h, depth)

\* CreateAcquire returning the placeholder, still bound, when no render
\* target can be had
CreateAcquire_KeepsPlaceholder(b, id, r, c, w, h, depth, usage, gpu_ok) ==
    LET a == glamor_create_fbo(b.fbos, c.max_fbo_size, w, h, depth, gpu_ok)
    IN  IF a.id = 0
        THEN CreateResult(b, id, "fbo_failed", id, r)
        ELSE CreateTextured(b, a, id, r, w, h, depth)

\* CreateAcquire leaving the size of the placeholder as it is
CreateAcquire_NoHeader(b, id, r, c, w, h, depth, usage, gpu_ok) ==
    LET a == glamor_create_fbo(b.fbos, c.max_fbo_size, w, h, depth, gpu_ok)
    IN  IF a.id = 0
        THEN CreateFallback([b EXCEPT !.pixmaps = fbDestroyPixmap(@, id),
                                      !.privs[r] = FreedPriv],
                            w, h, depth, usage, "fbo_failed", id, r)
        ELSE CreateResult(
                 glamor_pixmap_attach_fbo([b EXCEPT !.fbos = a.fbos], id, a.id),
                 id, "textured", id, r)

\* glamor_create_pixmap from the render-target acquisition on: pixmap id has
\* binding record r set
CreateAcquire(b, id, r, c, w, h, depth, usage, gpu_ok) ==
    LET a == glamor_create_fbo(b.fbos, c.max_fbo_size, w, h, depth, gpu_ok)
    IN  IF a.id = 0
        THEN \* fbDestroyPixmap(pixmap); free(pixmap_priv); fall back
             CreateFallback([b EXCEPT !.pixmaps = fbDestroyPixmap(@, id),
                                      !.privs[r] = FreedPriv],
                            w, h, depth, usage, "fbo_failed", id, r)
        ELSE CreateTextured(b, a, id, r, w, h, depth)

\* glamor_create_pixmap(screen, w, h, depth, usage) with context c (id p), on
\* b = [pixmaps, privs, fbos]
glamor_create_pixmap(b, p, c, w, h, depth, usage, calloc_ok, gpu_ok) ==
    IF w > MaxPixmapDim \/ h > MaxPixmapDim
    THEN CreateResult(b, 0, "too_large", 0, 0)
    ELSE IF \/ ~glamor_check_fbo_size(c.max_fbo_size, w, h)
            \/ ~glamor_check_fbo_depth(depth)
            \/ usage = GLAMOR_CREATE_PIXMAP_CPU
    THEN CreateFallback(b, w, h, depth, usage, "infeasible", 0, 0)
    ELSE
    LET id == Len(b.pixmaps) + 1
        b1 == [b EXCEPT !.pixmaps = fbCreatePixmap(@, 0, 0, depth, usage)]
    IN  IF ~calloc_ok
        THEN CreateFallback(b1, w, h, depth, usage, "calloc_failed", id, 0)
        ELSE
        LET r == Len(b.privs) + 1
            b2 == [b1 EXCEPT
                     !.privs = Append(@, [ mem |-> "live",
                                           type |-> GLAMOR_TEXTURE_ONLY,
                                           fbo |-> 0, container |-> id,
                                           glamor_priv |-> p ]),
                     !.pixmaps[id].priv = r]
        IN  IF w = 0 \/ h = 0
            THEN CreateResult(b2, id, "zero_sized", id, r)
            ELSE CreateAcquire(b2, id, r, c, w, h, depth, usage, gpu_ok)

\* glamor_destroy_textured_pixmap freeing the binding record with its render
\* target still attached
glamor_destroy_textured_pixmap_KeepsTarget(b, id, tick) ==
    IF b.pixmaps[id].refcnt = 1 /\ b.pixmaps[id].priv # 0
    THEN [b EXCEPT !.privs[b.pixmaps[id].priv] = FreedPriv]
    ELSE b

\* glamor_destroy_textured_pixmap without the test of the reference count
glamor_destroy_textured_pixmap_AnyRef(b, id, tick) ==
    IF b.pixmaps[id].priv # 0
    THEN LET r == b.pixmaps[id].priv
             d == glamor_pixmap_detach_fbo(b, r)
             b1 == IF d.fbo # 0
                   THEN [d.b EXCEPT !.fbos = glamor_destroy_fbo(@, d.fbo, tick)]
                   ELSE d.b
         IN  [b1 EXCEPT !.privs[r] = FreedPriv]
    ELSE b

\* glamor_destroy_textured_pixmap(pixmap)
glamor_destroy_textured_pixmap(b, id, tick) ==
    IF b.pixmaps[id].refcnt = 1 /\ b.pixmaps[id].priv # 0
    THEN LET r == b.pixmaps[id].priv
             d == glamor_pixmap_detach_fbo(b, r)
             b1 == IF d.fbo # 0
                   THEN [d.b EXCEPT !.fbos = glamor_destroy_fbo(@, d.fbo, tick)]
                   ELSE d.b
         IN  [b1 EXCEPT !.privs[r] = FreedPriv]
    ELSE b

\* glamor_destroy_pixmap(pixmap)
glamor_destroy_pixmap(b, id, tick) ==
    LET b1 == glamor_destroy_textured_pixmap(b, id, tick)
    IN  [b1 EXCEPT !.pixmaps = fbDestroyPixmap(@, id)]

\* the function glamor_create_pixmap calls for a software pixmap
FallbackCreateProc == FbProc("CreatePixmap")

\* the function glamor_destroy_pixmap calls to drop the reference
FinalDestroyProc == FbProc("DestroyPixmap")

\* glamor_get_pixmap_private(pixmap): the binding record in the pixmap's
\* private slot, 0 for NULL
glamor_get_pixmap_private(b, id) == b.pixmaps[id].priv

\* glamor_set_pixmap_type(pixmap, type) with context p, on
\* b = [pixmaps, privs, fbos]; created is the record it allocated (0 for none)
glamor_set_pixmap_type(b, p, id, type, calloc_ok) ==
    LET r == glamor_get_pixmap_private(b, id)
    IN  IF r # 0
        THEN [ b |-> [b EXCEPT !.privs[r].type = type], crashed |-> FALSE,
               created |-> 0 ]
        ELSE IF ~calloc_ok
        THEN \* pixmap_priv->container written through the NULL calloc returned
             [ b |-> b, crashed |-> TRUE, created |-> 0 ]
        ELSE LET n == Len(b.privs) + 1
             IN  [ b |-> [b EXCEPT
                            !.privs = Append(@, [ mem |-> "live", type |-> type,
                                                  fbo |-> 0, container |-> id,
                                                  glamor_priv |-> p ]),
                            !.pixmaps[id].priv = n],
                   crashed |-> FALSE, created |-> n ]

\* glamor_create_fbo_from_tex: a render target wrapping the texture the
\* caller owns; it is not pool-managed.  0 (NULL) when it cannot be made
glamor_create_fbo_from_tex(f, w, h, depth, tex_ok) ==
    IF ~tex_ok THEN [fbos |-> f, id |-> 0]
    ELSE [ fbos |-> Append(f, [ st |-> "held", w |-> w, h |-> h,
                                depth |-> depth, pooled |-> FALSE,
                                expire |-> 0 ]),
           id |-> Len(f) + 1 ]

\* glamor_set_pixmap_texture attaching the new target over the old one
glamor_set_pixmap_texture_NoDetach(b, id, tick, tex_ok) ==
    LET r == glamor_get_pixmap_private(b, id)
    IN  IF r = 0
        THEN [ b |-> b, crashed |-> TRUE, path |-> "null_priv",
               detached |-> 0, fbo |-> 0 ]
        ELSE
        LET a == glamor_create_fbo_from_tex(b.fbos, b.pixmaps[id].w,
                                            b.pixmaps[id].h,
                                            b.pixmaps[id].depth, tex_ok)
        IN  IF a.id = 0
            THEN [ b |-> b, crashed |-> FALSE, path |-> "fbo_failed",
                   detached |-> 0, fbo |-> 0 ]
            ELSE [ b |-> glamor_pixmap_attach_fbo([b EXCEPT !.fbos = a.fbos],
                                                  id, a.id),
                   crashed |-> FALSE, path |-> "attached",
                   detached |-> 0, fbo |-> a.id ]

\* glamor_set_pixmap_texture(pixmap, tex), on b = [pixmaps, privs, fbos];
\* detached is the target it handed to glamor_destroy_fbo, fbo the one it
\* attached (0 for none)
glamor_set_pixmap_texture(b, id, tick, tex_ok) ==
    LET r == glamor_get_pixmap_private(b, id)
    IN  IF r = 0
        THEN \* pixmap_priv->fbo read through a NULL pixmap_priv
             [ b |-> b, crashed |-> TRUE, path |-> "null_priv",
               detached |-> 0, fbo |-> 0 ]
        ELSE
        LET d == glamor_pixmap_detach_fbo(b, r)
            b1 == IF d.fbo # 0
                  THEN [d.b EXCEPT !.fbos = glamor_destroy_fbo(@, d.fbo, tick)]
                  ELSE b
            a == glamor_create_fbo_from_tex(b1.fbos, b.pixmaps[id].w,
                                            b.pixmaps[id].h,
                                            b.pixmaps[id].depth, tex_ok)
        IN  IF a.id = 0
            THEN [ b |-> b1, crashed |-> FALSE, path |-> "fbo_failed",
                   detached |-> d.fbo, fbo |-> 0 ]
            ELSE [ b |-> glamor_pixmap_attach_fbo([b1 EXCEPT !.fbos = a.fbos],
                                                  id, a.id),
                   crashed |-> FALSE, path |-> "attached",
                   detached |-> d.fbo, fbo |-> a.id ]

(***************************************************************************)
(* glamor_close_screen.                                                    *)
(***************************************************************************)
\* the ScreenRec entries glamor_close_screen writes back, in order
ScreenRestoreOrder ==
    << "CloseScreen", "CreateGC", "CreatePixmap", "DestroyPixmap", "GetSpans",
       "ChangeWindowAttributes", "CopyWindow", "BitmapToRegion" >>

\* the PictureScreenRec entries glamor_close_screen writes back, in order
PictureRestoreOrder ==
    << "Composite", "Trapezoids", "Glyphs", "Triangles", "CreatePicture" >>

\* RestoreOrder writing the entries back last-installed first
RestoreOrder_Reversed(flags) ==
    (IF RENDER /\ ps_set /\ GLAMOR_USE_PICTURE_SCREEN \in flags
     THEN Reverse(PictureRestoreOrder) ELSE <<>>)
    \o (IF GLAMOR_USE_SCREEN \in flags THEN Reverse(ScreenRestoreOrder) ELSE <<>>)

RestoreOrder(flags) ==
    (IF GLAMOR_USE_SCREEN \in flags THEN ScreenRestoreOrder ELSE <<>>)
    \o (IF RENDER /\ ps_set /\ GLAMOR_USE_PICTURE_SCREEN \in flags
        THEN PictureRestoreOrder ELSE <<>>)

\* table->X = glamor_priv->saved_procs.x;   on t = [screen, ps, saved]
RestoreOne(t, s) ==
    IF s \in ScreenSlots
    THEN [t EXCEPT !.screen[s] = t.saved[s]]
    ELSE [t EXCEPT !.ps[s] = t.saved[s]]

RECURSIVE Restore(_, _)
Restore(t, order) ==
    IF order = <<>> THEN t
    ELSE Restore(RestoreOne(t, Head(order)), Tail(order))

\* glamor_release_screen_priv: free(glamor_priv), then clear the screen's slot
glamor_release_screen_priv(st) ==
    [st EXCEPT !.ctx[st.screenPriv] = FreedCtx, !.screenPriv = 0]

\* CloseChain returning TRUE without calling the restored CloseScreen
CloseChain_Swallows(st, flags, chain_ret) ==
    [ steps |-> <<>>, chained |-> <<>>, crashed |-> FALSE, ret |-> TRUE ]

\* what glamor_close_screen does once the context is released: chain to
\* screen->CloseScreen under GLAMOR_USE_SCREEN, else return TRUE.  The steps
\* are <<kind, entry>> pairs; "priv" and "restore" steps read the context record.
CloseChain(st, flags, chain_ret) ==
    IF GLAMOR_USE_SCREEN \in flags
    THEN LET h == st.screen["CloseScreen"]
         IN  [ steps |-> << <<"call", "CloseScreen">> >>, chained |-> << h >>,
               \* a restored handler that is glamor_close_screen itself runs
               \* with a NULL glamor_priv and reads glamor_priv->flags
               crashed |-> (h = GlamorProc("CloseScreen")),
               ret |-> IF h = GlamorProc("CloseScreen") THEN FALSE ELSE chain_ret ]
    ELSE [ steps |-> <<>>, chained |-> <<>>, crashed |-> FALSE, ret |-> TRUE ]

\* glamor_close_screen(idx, screen) run on state st (st.screenPriv # 0)
glamor_close_screen(st, chain_ret) ==
    LET p == st.screenPriv
        flags == st.ctx[p].flags
        order == RestoreOrder(flags)
        t == Restore([screen |-> st.screen, ps |-> st.ps,
                      saved |-> st.ctx[p].saved_procs], order)
        st1 == [st EXCEPT !.screen = t.screen, !.ps = t.ps]
        st2 == glamor_release_screen_priv(st1)
        c == CloseChain(st2, flags, chain_ret)
    IN  [ st |-> st2, ret |-> c.ret, crashed |-> c.crashed,
          flags |-> flags, restored |-> order, chained |-> c.chained,
          steps |-> << <<"priv", "flags">> >>
                    \o [i \in 1..Len(order) |-> <<"restore", order[i]>>]
                    \o << <<"free", "glamor_priv">>, <<"clear", "slot">> >>
                    \o c.steps ]

(***************************************************************************)
(* The block handlers.                                                     *)
(***************************************************************************)
\* glamor_block_handler with an expire that takes every target older than
\* the retention window, attached or not
glamor_block_handler_ExpiresAll(b, p) ==
    LET tick == b.ctx[p].tick + 1
    IN  [ ctx |-> [b.ctx EXCEPT ![p].tick = tick],
          fbos |-> [i \in 1..Len(b.fbos) |->
                       IF tick - b.fbos[i].expire > RetentionWindow
                       THEN [b.fbos[i] EXCEPT !.st = "destroyed"]
                       ELSE b.fbos[i]],
          steps |-> << "tick++", "glFlush", "glFinish", "glamor_fbo_expire" >> ]

\* glamor_block_handler running the pool expire first, on the old tick
glamor_block_handler_ExpiresFirst(b, p) ==
    [ ctx |-> [b.ctx EXCEPT ![p].tick = @ + 1],
      fbos |-> glamor_fbo_expire(b.fbos, b.ctx[p].tick),
      steps |-> << "glamor_fbo_expire", "tick++", "glFlush", "glFinish" >> ]

\* glamor_block_handler(screen): the per-frame tick, on b = [ctx, fbos]
glamor_block_handler(b, p) ==
    LET tick == b.ctx[p].tick + 1
    IN  [ ctx |-> [b.ctx EXCEPT ![p].tick = tick],
          fbos |-> glamor_fbo_expire(b.fbos, tick),
          steps |-> << "tick++", "glFlush", "glFinish", "glamor_fbo_expire" >> ]

\* _glamor_block_handler doing the whole per-frame tick
_glamor_block_handler_Ticks(b, p) == glamor_block_handler(b, p)

\* _glamor_block_handler(data, ...): the handler glamor_init registers; data is
\* the dispatch table of context p
_glamor_block_handler(b, p) ==
    [ ctx |-> b.ctx, fbos |-> b.fbos, steps |-> << "glFlush", "glFinish" >> ]

(***************************************************************************)
(* The state before glamor_init is first called, and the calls.            *)
(***************************************************************************)
Init ==
    /\ RENDER \in BOOLEAN
    /\ GLES2 \in BOOLEAN
    /\ gl \in Environments
    /\ ps_set \in (IF RENDER THEN BOOLEAN ELSE {FALSE})
    /\ screen = [s \in ScreenSlots |-> PriorProc(s)]
    /\ ps = [s \in PictureSlots |-> PriorProc(s)]
    /\ screenPriv = 0
    /\ ctx = <<>>
    /\ keys = [screen |-> FALSE, pixmap |-> FALSE]
    /\ handlers = <<>>
    /\ glamor_debug_level = 0
    /\ crashed = FALSE
    /\ pixmaps = <<>>
    /\ privs = <<>>
    /\ fbos = <<>>
    /\ last = [op |-> "none"]
    /\ initSnap = [screen |-> screen, ps |-> ps, installed |-> <<>>]

SetHostState(st) ==
    /\ screen' = st.screen
    /\ ps' = st.ps
    /\ screenPriv' = st.screenPriv
    /\ ctx' = st.ctx
    /\ keys' = st.keys
    /\ handlers' = st.handlers
    /\ glamor_debug_level' = st.glamor_debug_level

\* one call glamor_init(screen, flags) meeting env
InitCall(flags, env) ==
    LET r == glamor_init(HostState, flags, env)
    IN  /\ SetHostState(r.st)
        /\ crashed' = r.crashed
        /\ initSnap' = IF r.ret
                       THEN [screen |-> screen, ps |-> ps,
                             installed |-> r.installed]
                       ELSE initSnap
        /\ last' = [ op |-> "glamor_init", flags |-> flags, ret |-> r.ret,
                     path |-> r.path, installed |-> r.installed,
                     pre |-> HostState ]

\* the driver calls glamor_init(screen, flags)
GlamorInit ==
    /\ ~crashed
    /\ Len(ctx) < MaxCtx
    /\ \E flags \in FlagWords, env \in InitEnvs : InitCall(flags, env)
    /\ UNCHANGED << buildVars, pixVars >>

\* the host (or the driver) calls glamor_close_screen(idx, screen)
GlamorCloseScreen ==
    /\ ~crashed
    /\ screenPriv # 0
    /\ \E chain_ret \in BOOLEAN :
          LET r == glamor_close_screen(HostState, chain_ret)
          IN  /\ SetHostState(r.st)
              /\ crashed' = r.crashed
              /\ last' = [ op |-> "glamor_close_screen", flags |-> r.flags,
                           ret |-> r.ret, restored |-> r.restored,
                           chained |-> r.chained, chain_ret |-> chain_ret,
                           steps |-> r.steps, pre |-> HostState ]
    /\ fbos' = glamor_fini_pixmap_fbo(fbos)
    /\ UNCHANGED << buildVars, pixmaps, privs, initSnap >>

\* the driver calls glamor_block_handler(screen)
GlamorBlockHandler ==
    /\ ~crashed
    /\ screenPriv # 0
    /\ ctx[screenPriv].tick < MaxTick
    /\ LET r == glamor_block_handler([ctx |-> ctx, fbos |-> fbos], screenPriv)
       IN  /\ ctx' = r.ctx
           /\ fbos' = r.fbos
           /\ last' = [ op |-> "glamor_block_handler", data |-> screenPriv,
                        steps |-> r.steps,
                        pre |-> [ctx |-> ctx, fbos |-> fbos] ]
    /\ UNCHANGED << buildVars, screen, ps, screenPriv, keys, handlers,
                    glamor_debug_level, crashed, pixmaps, privs, initSnap >>

\* the host event loop runs a registered block handler whose context is live
RegisteredBlockHandler ==
    /\ ~crashed
    /\ \E i \in 1..Len(handlers) :
          /\ ctx[handlers[i]].mem = "live"
          /\ LET r == _glamor_block_handler([ctx |-> ctx, fbos |-> fbos],
                                            handlers[i])
             IN  /\ ctx' = r.ctx
                 /\ fbos' = r.fbos
                 /\ last' = [ op |-> "_glamor_block_handler",
                              data |-> handlers[i], steps |-> r.steps,
                              pre |-> [ctx |-> ctx, fbos |-> fbos] ]
    /\ UNCHANGED << buildVars, screen, ps, screenPriv, keys, handlers,
                    glamor_debug_level, crashed, pixmaps, privs, initSnap >>

\* the host event loop runs a registered block handler whose data points into
\* a freed context: the read of dispatch->glFlush is undefined, it may still
\* find the old table or fault
DanglingBlockHandler ==
    /\ ~crashed
    /\ \E i \in 1..Len(handlers), faults \in BOOLEAN :
          /\ ctx[handlers[i]].mem = "freed"
          /\ crashed' = faults
          /\ last' = [ op |-> "_glamor_block_handler", data |-> handlers[i],
                       steps |-> IF faults THEN <<>>
                                 ELSE << "glFlush", "glFinish" >>,
                       pre |-> [ctx |-> ctx, fbos |-> fbos] ]
    /\ UNCHANGED << buildVars, screen, ps, screenPriv, ctx, keys, handlers,
                    glamor_debug_level, pixVars, initSnap >>

\* the driver brings glamor up on the screen with both families hooked
StartGlamor ==
    /\ ~crashed
    /\ ctx = <<>>
    /\ InitCall({GLAMOR_USE_SCREEN, GLAMOR_USE_PICTURE_SCREEN}, OkEnv)
    /\ UNCHANGED << buildVars, pixVars >>

\* the pixmaps the host asks for: (w, h, depth, usage)
Requests ==
    { [w |-> 32, h |-> 32, depth |-> 24, usage |-> CREATE_PIXMAP_USAGE_DEFAULT],
      [w |-> 100, h |-> 100, depth |-> 24, usage |-> CREATE_PIXMAP_USAGE_DEFAULT],
      [w |-> 100, h |-> 32, depth |-> 24, usage |-> CREATE_PIXMAP_USAGE_DEFAULT],
      [w |-> 32, h |-> 100, depth |-> 24, usage |-> CREATE_PIXMAP_USAGE_DEFAULT],
      [w |-> 0, h |-> 32, depth |-> 24, usage |-> CREATE_PIXMAP_USAGE_DEFAULT],
      [w |-> 32, h |-> 32, depth |-> 1, usage |-> CREATE_PIXMAP_USAGE_DEFAULT],
      [w |-> 32, h |-> 32, depth |-> 24, usage |-> GLAMOR_CREATE_PIXMAP_CPU],
      [w |-> 32768, h |-> 32, depth |-> 24, usage |-> CREATE_PIXMAP_USAGE_DEFAULT],
      [w |-> 32, h |-> 32768, depth |-> 24, usage |-> CREATE_PIXMAP_USAGE_DEFAULT] }

PixState == [pixmaps |-> pixmaps, privs |-> privs, fbos |-> fbos]

\* one call glamor_create_pixmap(screen, rq.w, rq.h, rq.depth, rq.usage)
CreateCall(rq, calloc_ok, gpu_ok) ==
    /\ ~crashed
    /\ screenPriv # 0
    /\ Len(pixmaps) + 2 <= MaxPix
    /\ Len(fbos) < MaxFbo
    /\    LET r == glamor_create_pixmap(PixState, screenPriv, ctx[screenPriv],
                                        rq.w, rq.h, rq.depth, rq.usage,
                                        calloc_ok, gpu_ok)
          IN  /\ pixmaps' = IF r.ret = 0 THEN r.b.pixmaps
                            ELSE [r.b.pixmaps EXCEPT ![r.ret].returned = TRUE]
              /\ privs' = r.b.privs
              /\ fbos' = r.b.fbos
              /\ last' = [ op |-> "glamor_create_pixmap", w |-> rq.w,
                           h |-> rq.h, depth |-> rq.depth, usage |-> rq.usage,
                           max_fbo_size |-> ctx[screenPriv].max_fbo_size,
                           ret |-> r.ret, path |-> r.path,
                           placeholder |-> r.placeholder,
                           record |-> r.record,
                           delegate |->
                               IF r.path \in {"infeasible", "calloc_failed",
                                              "fbo_failed"}
                               THEN << FallbackCreateProc >> ELSE << >>,
                           saved |-> ctx[screenPriv].saved_procs["CreatePixmap"] ]
    /\ UNCHANGED << buildVars, screen, ps, screenPriv, ctx, keys, handlers,
                    glamor_debug_level, crashed, initSnap >>

\* the host calls screen->CreatePixmap, which is glamor_create_pixmap
GlamorCreatePixmap ==
    \E rq \in Requests, calloc_ok \in BOOLEAN, gpu_ok \in BOOLEAN :
        CreateCall(rq, calloc_ok, gpu_ok)

\* the host calls screen->DestroyPixmap, which is glamor_destroy_pixmap, on a
\* pixmap it holds
GlamorDestroyPixmap ==
    /\ ~crashed
    /\ screenPriv # 0
    /\ \E id \in 1..Len(pixmaps) :
          /\ pixmaps[id].mem = "live"
          /\ pixmaps[id].returned
          /\ LET r == glamor_destroy_pixmap(PixState, id, ctx[screenPriv].tick)
             IN  /\ pixmaps' = r.pixmaps
                 /\ privs' = r.privs
                 /\ fbos' = r.fbos
                 /\ last' = [ op |-> "glamor_destroy_pixmap", id |-> id,
                              ret |-> TRUE, pre |-> PixState,
                              delegate |-> << FinalDestroyProc >>,
                              saved |->
                                  ctx[screenPriv].saved_procs["DestroyPixmap"] ]
    /\ UNCHANGED << buildVars, screen, ps, screenPriv, ctx, keys, handlers,
                    glamor_debug_level, crashed, initSnap >>

Next ==
    \/ GlamorInit
    \/ GlamorCloseScreen
    \/ RegisteredBlockHandler
    \/ DanglingBlockHandler

Spec == Init /\ [][Next]_vars

\* one screen of a desktop-GL RENDER build with glamor brought up once, and
\* the pixmap entry points and block handlers called on it
InitPixmap ==
    /\ Init
    /\ RENDER /\ ps_set /\ ~GLES2
    /\ gl.version >= GLAMOR_GL_VERSION_ENCODE(2, 0)

NextPixmap ==
    \/ StartGlamor
    \/ GlamorCreatePixmap
    \/ GlamorDestroyPixmap
    \/ GlamorBlockHandler
    \/ RegisteredBlockHandler

SpecPixmap == InitPixmap /\ [][NextPixmap]_vars

\* the driver calls glamor_set_pixmap_type on a pixmap it holds
GlamorSetPixmapType ==
    /\ ~crashed
    /\ screenPriv # 0
    /\ \E id \in 1..Len(pixmaps), type \in PixmapTypes, calloc_ok \in BOOLEAN :
          /\ pixmaps[id].mem = "live"
          /\ pixmaps[id].returned
          /\ LET r == glamor_set_pixmap_type(PixState, screenPriv, id, type,
                                              calloc_ok)
             IN  /\ pixmaps' = r.b.pixmaps
                 /\ privs' = r.b.privs
                 /\ fbos' = r.b.fbos
                 /\ crashed' = r.crashed
                 /\ last' = [ op |-> "glamor_set_pixmap_type", id |-> id,
                              type |-> type, created |-> r.created,
                              pre |-> [privs |-> privs, fbos |-> fbos] ]
    /\ UNCHANGED << buildVars, screen, ps, screenPriv, ctx, keys, handlers,
                    glamor_debug_level, initSnap >>

\* the driver calls glamor_set_pixmap_texture on a pixmap it holds
GlamorSetPixmapTexture ==
    /\ ~crashed
    /\ screenPriv # 0
    /\ Len(fbos) < MaxFbo
    /\ \E id \in 1..Len(pixmaps), tex_ok \in BOOLEAN :
          /\ pixmaps[id].mem = "live"
          /\ pixmaps[id].returned
          /\ LET r == glamor_set_pixmap_texture(PixState, id,
                                                 ctx[screenPriv].tick, tex_ok)
             IN  /\ pixmaps' = r.b.pixmaps
                 /\ privs' = r.b.privs
                 /\ fbos' = r.b.fbos
                 /\ crashed' = r.crashed
                 /\ last' = [ op |-> "glamor_set_pixmap_texture", id |-> id,
                              path |-> r.path, detached |-> r.detached,
                              fbo |-> r.fbo,
                              pre |-> [privs |-> privs, fbos |-> fbos] ]
    /\ UNCHANGED << buildVars, screen, ps, screenPriv, ctx, keys, handlers,
                    glamor_debug_level, initSnap >>

\* a user of the pixmap in the host takes a reference: pixmap->refcnt++
HostRefPixmap ==
    /\ ~crashed
    /\ \E id \in 1..Len(pixmaps) :
          /\ pixmaps[id].mem = "live"
          /\ pixmaps[id].returned
          /\ pixmaps[id].refcnt < MaxRef
          /\ pixmaps' = [pixmaps EXCEPT ![id].refcnt = @ + 1]
          /\ last' = [op |-> "refcnt++", id |-> id]
    /\ UNCHANGED << buildVars, screen, ps, screenPriv, ctx, keys, handlers,
                    glamor_debug_level, crashed, privs, fbos, initSnap >>

\* the pixmaps the host asks for while the driver rebinds them: one that can
\* have a render target and one that cannot
BindingRequests ==
    { [w |-> 32, h |-> 32, depth |-> 24, usage |-> CREATE_PIXMAP_USAGE_DEFAULT],
      [w |-> 100, h |-> 100, depth |-> 24, usage |-> CREATE_PIXMAP_USAGE_DEFAULT] }

BindingCreatePixmap ==
    \E rq \in BindingRequests, calloc_ok \in BOOLEAN, gpu_ok \in BOOLEAN :
        CreateCall(rq, calloc_ok, gpu_ok)

\* one screen of a desktop-GL RENDER build whose screen table holds the
\* handlers of another backend, with glamor brought up once on top of it, and
\* every entry point that touches a binding record called on it
InitBinding ==
    /\ RENDER = TRUE
    /\ GLES2 = FALSE
    /\ gl \in {e \in Environments :
                 /\ e.version >= GLAMOR_GL_VERSION_ENCODE(2, 0)
                 /\ e.max_renderbuffer_size = 64}
    /\ ps_set = TRUE
    /\ screen = [s \in ScreenSlots |-> OtherProc(s)]
    /\ ps = [s \in PictureSlots |-> PriorProc(s)]
    /\ screenPriv = 0
    /\ ctx = <<>>
    /\ keys = [screen |-> FALSE, pixmap |-> FALSE]
    /\ handlers = <<>>
    /\ glamor_debug_level = 0
    /\ crashed = FALSE
    /\ pixmaps = <<>>
    /\ privs = <<>>
    /\ fbos = <<>>
    /\ last = [op |-> "none"]
    /\ initSnap = [screen |-> screen, ps |-> ps, installed |-> <<>>]

NextBinding ==
    \/ StartGlamor
    \/ BindingCreatePixmap
    \/ GlamorSetPixmapType
    \/ GlamorSetPixmapTexture
    \/ HostRefPixmap
    \/ GlamorDestroyPixmap
    \/ GlamorCloseScreen

SpecBinding == InitBinding /\ [][NextBinding]_vars

(***************************************************************************)
(* Properties of initialisation and teardown.                              *)
(***************************************************************************)
ClosedScreen == last.op = "glamor_close_screen"

InitReturned == last.op = "glamor_init" /\ ~crashed

\* C1: a successful glamor_init followed by glamor_close_screen leaves every
\* entry of the screen and picture operation tables equal to the value it had
\* immediately before glamor_init.
C1_RoundTripRestoresTables ==
    (ClosedScreen /\ ~crashed) =>
        /\ screen = initSnap.screen
        /\ ps = initSnap.ps

\* the GL context passes the version and extension checks of this build
GLCapable ==
    /\ gl.version >= MinGLVersion
    /\ GLES2 => glamor_gl_has_extension(BGRA8888)

\* C2: when glamor_init, called on a screen without a context, returns FALSE,
\* no host handler has been overwritten, the screen's slot holds no context
\* record and the call registered no tick handler; and a following glamor_init
\* with valid flags ends exactly as it would have without the failed attempt
\* (same return value, same resulting state), succeeding whenever the GL
\* context is capable and the picture screen it dereferences exists.
C2_FailedInitLeavesNothing ==
    (InitReturned /\ ~last.ret /\ last.pre.screenPriv = 0) =>
        /\ screen = last.pre.screen
        /\ ps = last.pre.ps
        /\ screenPriv = 0
        /\ handlers = last.pre.handlers
        /\ \A f \in ValidFlagWords :
              LET retry == glamor_init(HostState, f, OkEnv)
                  fresh == glamor_init(last.pre, f, OkEnv)
              IN  /\ retry.ret = fresh.ret
                  /\ retry.crashed = fresh.crashed
                  /\ retry.path = fresh.path
                  /\ Observable(retry.st) = Observable(fresh.st)
                  /\ (GLCapable /\ (RENDER => ps_set)) => retry.ret

\* a failed attempt that had already stored the context in the screen's slot
C2_Witness ==
    /\ InitReturned /\ ~last.ret /\ last.pre.screenPriv = 0
    /\ last.path = "register_handlers"
    /\ keys.screen /\ keys.pixmap

\* C7: glamor_init overwrites entries of the screen table only under
\* GLAMOR_USE_SCREEN and entries of the picture table only under
\* GLAMOR_USE_PICTURE_SCREEN.
C7_FlagsGateFamilies ==
    (InitReturned /\ last.ret) =>
        /\ GLAMOR_USE_SCREEN \notin last.flags => screen = last.pre.screen
        /\ GLAMOR_USE_PICTURE_SCREEN \notin last.flags => ps = last.pre.ps

StepReadsPriv(step) == step[1] \in {"priv", "restore"}

CreatedPixmap == last.op = "glamor_create_pixmap"

\* the request glamor_create_pixmap was called with can have a render target
FeasibleRequest ==
    /\ last.w <= last.max_fbo_size
    /\ last.h <= last.max_fbo_size
    /\ last.depth \in SupportedDepths
    /\ last.usage # GLAMOR_CREATE_PIXMAP_CPU

\* pixmap id is a live software pixmap of the requested size and no binding
\* record belongs to it
SoftwareOfRequestedSize(id) ==
    /\ id # 0
    /\ pixmaps[id].mem = "live"
    /\ pixmaps[id].priv = 0
    /\ pixmaps[id].w = last.w /\ pixmaps[id].h = last.h
    /\ pixmaps[id].depth = last.depth
    /\ \A r \in 1..Len(privs) : privs[r].container # id

\* C3 as claimed: glamor_create_pixmap returns a live pixmap for every request.
C3_AlwaysReturnsPixmap ==
    CreatedPixmap => (last.ret # 0 /\ pixmaps[last.ret].mem = "live")

\* C3 as amended: glamor_create_pixmap returns NullPixmap exactly when w or h
\* exceeds 32767; every other request gets a live pixmap, and a request that
\* is infeasible or meets a failed record allocation or a failed render-target
\* acquisition gets a software pixmap of the requested size.
C3_ReturnsPixmapUpTo32767 ==
    CreatedPixmap =>
        /\ last.ret = 0 <=> (last.w > MaxPixmapDim \/ last.h > MaxPixmapDim)
        /\ last.ret # 0 => pixmaps[last.ret].mem = "live"
        /\ last.path \in {"infeasible", "calloc_failed", "fbo_failed"}
               => SoftwareOfRequestedSize(last.ret)

C3_Witness ==
    /\ CreatedPixmap /\ last.path = "fbo_failed"
    /\ last.ret # 0 /\ pixmaps[last.ret].mem = "live"

\* C4: a request with w or h over the maximum render-target dimension, an
\* unsupported depth or CPU usage yields, when it yields a pixmap, a software
\* pixmap of the requested size with no binding record, and creates neither a
\* placeholder nor a binding record; it yields one whenever w, h <= 32767.
C4_InfeasibleIsSoftware ==
    (CreatedPixmap /\ ~FeasibleRequest) =>
        /\ last.ret # 0 => SoftwareOfRequestedSize(last.ret)
        /\ (last.w <= MaxPixmapDim /\ last.h <= MaxPixmapDim) => last.ret # 0
        /\ last.placeholder = 0
        /\ last.record = 0

C4_Witness ==
    /\ CreatedPixmap
    /\ last.w = 100 /\ last.h = 100 /\ last.depth = 24
    /\ last.max_fbo_size = 64
    /\ SoftwareOfRequestedSize(last.ret)

\* pixmap id has a live binding record of type GLAMOR_TEXTURE_ONLY
TextureBacked(id) ==
    /\ id # 0
    /\ pixmaps[id].mem = "live"
    /\ pixmaps[id].priv # 0
    /\ privs[pixmaps[id].priv].mem = "live"
    /\ privs[pixmaps[id].priv].type = GLAMOR_TEXTURE_ONLY
    /\ privs[pixmaps[id].priv].container = id

\* pixmap id owns an attached render target of the requested size
OwnsTargetOfRequestedSize(id) ==
    LET fbo == privs[pixmaps[id].priv].fbo
    IN  /\ fbo # 0
        /\ fbos[fbo].st = "attached"
        /\ fbos[fbo].w = last.w /\ fbos[fbo].h = last.h
        /\ fbos[fbo].depth = last.depth
        /\ pixmaps[id].w = last.w /\ pixmaps[id].h = last.h

\* C5 as claimed: every feasible request yields a pixmap whose binding record
\* is GPU-texture-backed.
C5_FeasibleIsTextured ==
    (CreatedPixmap /\ FeasibleRequest) => TextureBacked(last.ret)

\* C5 as amended: a feasible request whose binding-record allocation and
\* render-target acquisition both succeed yields a pixmap whose binding record
\* is GPU-texture-backed and, for a non-zero size, owns an attached render
\* target of the requested size; with maximum dimension 64, (32,32,24) is
\* GPU-backed when they succeed and (100,100,24) is software-backed.
C5_FeasibleIsTexturedUnlessFailed ==
    CreatedPixmap =>
        /\ (FeasibleRequest /\ last.path \notin {"calloc_failed", "fbo_failed"})
               => /\ TextureBacked(last.ret)
                  /\ (last.w > 0 /\ last.h > 0)
                         => OwnsTargetOfRequestedSize(last.ret)
        /\ (last.max_fbo_size = 64 /\ last.w = 100 /\ last.h = 100)
               => SoftwareOfRequestedSize(last.ret)

C5_Witness ==
    /\ CreatedPixmap
    /\ last.w = 32 /\ last.h = 32 /\ last.depth = 24
    /\ last.max_fbo_size = 64
    /\ TextureBacked(last.ret)
    /\ OwnsTargetOfRequestedSize(last.ret)

\* C6: when the request is feasible but no render target can be acquired, the
\* placeholder is destroyed, its binding record freed, and the pixmap returned
\* is a software pixmap of the requested size with no binding record; and no
\* pixmap returned for a non-zero size has a binding record without an
\* attached render target.
C6_NoHalfBoundPixmap ==
    CreatedPixmap =>
        /\ last.path = "fbo_failed" =>
              /\ FeasibleRequest
              /\ last.placeholder # 0
              /\ pixmaps[last.placeholder].mem = "freed"
              /\ last.record # 0
              /\ privs[last.record].mem = "freed"
              /\ last.ret # last.placeholder
              /\ SoftwareOfRequestedSize(last.ret)
              /\ \A f \in 1..Len(fbos) : fbos[f].st # "held"
        /\ (last.ret # 0 /\ last.w > 0 /\ last.h > 0
            /\ pixmaps[last.ret].priv # 0)
               => /\ privs[pixmaps[last.ret].priv].fbo # 0
                  /\ fbos[privs[pixmaps[last.ret].priv].fbo].st = "attached"

C6_Witness ==
    /\ CreatedPixmap /\ last.path = "fbo_failed"
    /\ pixmaps[last.placeholder].mem = "freed"
    /\ privs[last.record].mem = "freed"
    /\ SoftwareOfRequestedSize(last.ret)

(***************************************************************************)
(* Properties of the block handlers.                                       *)
(***************************************************************************)
RanRegisteredHandler == last.op = "_glamor_block_handler"

RanTick == last.op = "glamor_block_handler"

\* C11: each call of glamor_block_handler increments the tick counter of the
\* context by exactly one and then performs, in this order, a flush, a finish
\* and, exactly once, the pool expire, which runs on the incremented tick:
\* every idle target older than the retention window at the new tick is
\* destroyed and every other target is left as it was.
C11_TickStepOrder ==
    RanTick =>
        LET tick == ctx[last.data].tick
        IN  /\ tick = last.pre.ctx[last.data].tick + 1
            /\ last.steps
                   = << "tick++", "glFlush", "glFinish", "glamor_fbo_expire" >>
            /\ Cardinality({i \in 1..Len(last.steps) :
                               last.steps[i] = "glamor_fbo_expire"}) = 1
            /\ Len(fbos) = Len(last.pre.fbos)
            /\ \A f \in 1..Len(fbos) :
                  IF /\ last.pre.fbos[f].st = "idle"
                     /\ tick - last.pre.fbos[f].expire > RetentionWindow
                  THEN fbos[f].st = "destroyed"
                  ELSE fbos[f] = last.pre.fbos[f]

\* a tick whose expire destroyed an idle target it would have kept one tick
\* earlier
C11_Witness ==
    /\ RanTick
    /\ \E f \in 1..Len(fbos) :
          /\ last.pre.fbos[f].st = "idle"
          /\ fbos[f].st = "destroyed"
          /\ last.pre.ctx[last.data].tick - last.pre.fbos[f].expire
                 = RetentionWindow

(***************************************************************************)
(* Properties of the binding records and their render targets.             *)
(***************************************************************************)
RanSetTexture == last.op = "glamor_set_pixmap_texture"

\* the targets of heap f that are in the idle pool or destroyed
Gone(f) == {i \in 1..Len(f) : f[i].st \in {"idle", "destroyed"}}

\* the live binding records that own target f
Owners(f) == {r \in 1..Len(privs) : privs[r].mem = "live" /\ privs[r].fbo = f}

\* the last glamor_set_pixmap_texture ran on a pixmap whose record owned a
\* target
ReplacedTarget ==
    /\ RanSetTexture
    /\ pixmaps[last.id].priv # 0
    /\ last.pre.privs[pixmaps[last.id].priv].fbo # 0

\* glamor_set_pixmap_texture handed the target A the record owned to
\* glamor_destroy_fbo exactly once: A and nothing else joined the idle or
\* destroyed targets, and no record owns A any more
ReleasedOnce(A) ==
    /\ last.detached = A
    /\ last.pre.fbos[A].st = "attached"
    /\ A \notin Gone(last.pre.fbos)
    /\ Gone(fbos) = Gone(last.pre.fbos) \cup {A}
    /\ Owners(A) = {}

\* the record r owns B and only B, a target made by this call
OwnsNew(r, A) ==
    LET B == privs[r].fbo
    IN  /\ B # 0 /\ B # A
        /\ B = last.fbo
        /\ B > Len(last.pre.fbos)
        /\ fbos[B].st = "attached"
        /\ Owners(B) = {r}

\* C12 as claimed: on a pixmap that owns target A, glamor_set_pixmap_texture
\* releases A exactly once and afterwards the pixmap owns a new target B and
\* only B.
C12_AttachReplacesTarget ==
    ReplacedTarget =>
        LET r == pixmaps[last.id].priv
            A == last.pre.privs[r].fbo
        IN  /\ ReleasedOnce(A)
            /\ OwnsNew(r, A)

\* C12 as amended: on a pixmap that owns target A, glamor_set_pixmap_texture
\* releases A exactly once; when the new target B can be made from the texture
\* the pixmap afterwards owns B and only B, and when it cannot the pixmap owns
\* no target at all.
C12_AttachReplacesTargetIfMade ==
    ReplacedTarget =>
        LET r == pixmaps[last.id].priv
            A == last.pre.privs[r].fbo
        IN  /\ ReleasedOnce(A)
            /\ last.path \in {"attached", "fbo_failed"}
            /\ last.path = "attached" => OwnsNew(r, A)
            /\ last.path = "fbo_failed" =>
                  /\ privs[r].fbo = 0
                  /\ last.fbo = 0
                  /\ Len(fbos) = Len(last.pre.fbos)

\* a pool-managed target was replaced by one made from a texture
C12_Witness ==
    /\ ReplacedTarget
    /\ last.path = "attached"
    /\ fbos[last.detached].st = "idle"
    /\ fbos[last.fbo].st = "attached"

\* C14: the software fallback of glamor_create_pixmap, the final destroy of
\* glamor_destroy_pixmap and the shutdown chain of glamor_close_screen each
\* invoke the handler glamor_init saved for that entry.
C14_DelegatesThroughSaved ==
    /\ (CreatedPixmap /\ last.delegate # << >>)
           => last.delegate = << last.saved >>
    /\ last.op = "glamor_destroy_pixmap" => last.delegate = << last.saved >>
    /\ (ClosedScreen /\ GLAMOR_USE_SCREEN \in last.flags)
           => last.chained
                  = << last.pre.ctx[last.pre.screenPriv].saved_procs["CloseScreen"] >>

\* C15: every render target that is attached is owned by exactly one live
\* binding record, every idle or destroyed target by none, no target is left
\* detached and unreleased between calls, and every target a binding record
\* refers to is attached to it.
C15_SingleOwnership ==
    /\ \A f \in 1..Len(fbos) :
          /\ fbos[f].st \in {"attached", "idle", "destroyed"}
          /\ fbos[f].st = "attached" => Cardinality(Owners(f)) = 1
          /\ fbos[f].st \in {"idle", "destroyed"} => Owners(f) = {}
    /\ \A r \in 1..Len(privs) :
          privs[r].fbo # 0 =>
              /\ privs[r].mem = "live"
              /\ fbos[privs[r].fbo].st = "attached"

\* two pixmaps, one of them rebound to a texture, and a released target
C15_Witness ==
    /\ ~crashed
    /\ \E f, g \in 1..Len(fbos) :
          /\ fbos[f].st = "attached" /\ ~fbos[f].pooled
          /\ fbos[g].st \in {"idle", "destroyed"}
    /\ \E r \in 1..Len(privs) : privs[r].mem = "freed"

\* C16: a tick's expire destroys exactly the idle targets older than the
\* retention window and leaves every attached target attached to its record;
\* and in every state no idle target is owned by a binding record.
C16_ExpireSparesAttached ==
    /\ RanTick =>
          LET tick == ctx[last.data].tick
              old(f) == tick - last.pre.fbos[f].expire > RetentionWindow
          IN  /\ \A f \in 1..Len(fbos) :
                    last.pre.fbos[f].st = "attached" =>
                        /\ fbos[f] = last.pre.fbos[f]
                        /\ Cardinality(Owners(f)) = 1
              /\ {f \in 1..Len(fbos) : fbos[f].st = "destroyed"}
                     \ {f \in 1..Len(fbos) : last.pre.fbos[f].st = "destroyed"}
                 = {f \in 1..Len(fbos) : last.pre.fbos[f].st = "idle" /\ old(f)}
    /\ \A f \in 1..Len(fbos) : fbos[f].st = "idle" => Owners(f) = {}

\* a tick that destroyed an idle target while an attached one, as old, stayed
C16_Witness ==
    /\ RanTick
    /\ \E f, g \in 1..Len(fbos) :
          /\ last.pre.fbos[f].st = "idle" /\ fbos[f].st = "destroyed"
          /\ fbos[g].st = "attached"
          /\ ctx[last.data].tick - fbos[g].expire > RetentionWindow

RanDestroy == last.op = "glamor_destroy_pixmap"

\* C17: glamor_destroy_pixmap on a pixmap with more than one reference drops
\* one reference and leaves every binding record and render target as it was;
\* on the last reference it frees the pixmap and its binding record, after
\* which no pixmap refers to that record, and releases the target the record
\* owned exactly once, leaving every other target as it was.
C17_DestroyOnLastReference ==
    RanDestroy =>
        LET id == last.id
            pre == last.pre
            r == pre.pixmaps[id].priv
            A == IF r = 0 THEN 0 ELSE pre.privs[r].fbo
        IN  IF pre.pixmaps[id].refcnt > 1
            THEN /\ privs = pre.privs
                 /\ fbos = pre.fbos
                 /\ pixmaps[id] = [pre.pixmaps[id] EXCEPT !.refcnt = @ - 1]
            ELSE /\ pixmaps[id].mem = "freed"
                 /\ \A q \in 1..Len(pixmaps) : r # 0 => pixmaps[q].priv # r
                 /\ r # 0 => privs[r].mem = "freed"
                 /\ \A q \in 1..Len(privs) :
                       privs[q].mem = "live" => privs[q].container # id
                 /\ Gone(fbos) = Gone(pre.fbos) \cup (IF A = 0 THEN {} ELSE {A})
                 /\ A # 0 => /\ pre.fbos[A].st = "attached"
                             /\ Owners(A) = {}
                 /\ \A f \in 1..Len(fbos) : f # A => fbos[f] = pre.fbos[f]

\* a destroy that was not the last one, on a pixmap that owns a target
C17_Witness ==
    /\ RanDestroy
    /\ last.pre.pixmaps[last.id].refcnt = 2
    /\ pixmaps[last.id].refcnt = 1
    /\ pixmaps[last.id].priv # 0
    /\ privs[pixmaps[last.id].priv].fbo # 0

\* C18: glamor_set_pixmap_type and glamor_set_pixmap_texture leave the pixmap
\* with exactly one live binding record, whose owner and context are set;
\* called on a pixmap without a record they create it, called on one that has
\* a record they create none, and set-type leaves the attached target alone.
C18_LazyBindingRecords ==
    (last.op \in {"glamor_set_pixmap_type", "glamor_set_pixmap_texture"}) =>
        LET id == last.id
            r == pixmaps[id].priv
        IN  /\ ~crashed
            /\ r # 0
            /\ privs[r].mem = "live"
            /\ privs[r].container = id
            /\ privs[r].glamor_priv = screenPriv
            /\ {q \in 1..Len(privs) :
                   privs[q].mem = "live" /\ privs[q].container = id} = {r}
            /\ IF r \in 1..Len(last.pre.privs)
               THEN Len(privs) = Len(last.pre.privs)
               ELSE Len(privs) = Len(last.pre.privs) + 1
            /\ last.op = "glamor_set_pixmap_type" =>
                  /\ privs[r].type = last.type
                  /\ fbos = last.pre.fbos
                  /\ r \in 1..Len(last.pre.privs)
                         => privs[r].fbo = last.pre.privs[r].fbo

\* C19: every placeholder pixmap made inside a glamor_create_pixmap call is,
\* when the call returns, the pixmap returned or destroyed; when the
\* allocation of the binding record fails the caller gets a software pixmap
\* without a record and the placeholder is not left allocated.
C19_NoPlaceholderLeak ==
    (CreatedPixmap /\ last.placeholder # 0) =>
        /\ \/ last.ret = last.placeholder
           \/ pixmaps[last.placeholder].mem = "freed"
        /\ last.path = "calloc_failed" => SoftwareOfRequestedSize(last.ret)

(***************************************************************************)
(* Properties of repeated initialisation and of what teardown leaves.      *)
(***************************************************************************)
\* the last glamor_init succeeded on a screen that already had a context
\* initialised with the same flags
SecondInit ==
    /\ InitReturned /\ last.ret
    /\ last.pre.screenPriv # 0
    /\ last.pre.ctx[last.pre.screenPriv].flags = last.flags

\* C13: a second glamor_init with the same flags on an initialised screen
\* leaves the operation tables as they were, saves no handler of this backend
\* as a previous handler, and a following glamor_close_screen chains to the
\* CloseScreen that preceded the first glamor_init.
C13_InstallIdempotent ==
    SecondInit =>
        LET first == last.pre.ctx[last.pre.screenPriv].saved_procs
            close == glamor_close_screen(HostState, TRUE)
        IN  /\ screen = last.pre.screen
            /\ ps = last.pre.ps
            /\ \A s \in AllSlots : ctx[screenPriv].saved_procs[s] # GlamorProc(s)
            /\ ctx[screenPriv].saved_procs = first
            /\ GLAMOR_USE_SCREEN \in last.flags =>
                  /\ close.chained = << first["CloseScreen"] >>
                  /\ ~close.crashed

\* C20: after glamor_close_screen no block handler registered by glamor_init
\* is still registered and no entry of the screen or picture table holds a
\* handler of this backend.
C20_TeardownLeavesNothing ==
    (ClosedScreen /\ ~crashed) =>
        /\ handlers = << >>
        /\ \A s \in ScreenSlots : screen[s] # GlamorProc(s)
        /\ \A s \in PictureSlots : ps[s] # GlamorProc(s)

====
